---- MODULE Spec2Model ----
(***************************************************************************)
(* Model of the statistics endpoints of the expense tracker backend        *)
(* (backend/stats_routes.py): /api/stats/by-category, /total, /by-date     *)
(* and /by-month, each a single SQL aggregate query over the expense       *)
(* table followed by a formatting loop.                                    *)
(*                                                                         *)
(* Representation:                                                         *)
(*   - an amount is an integer number of thousandths (1234 = 1.234), a     *)
(*     rounded output value is an integer number of hundredths (cents);    *)
(*   - a date is a tuple <<year, month, day>>, SQL NULL / Python None is   *)
(*     the empty tuple <<>>;                                               *)
(*   - a string produced by strftime() or str(date) is the sequence of     *)
(*     its character codes, compared bytewise as SQLite compares text;     *)
(*   - the expense table is a function from row ids to rows.               *)
(***************************************************************************)
EXTENDS Integers, Sequences, FiniteSets, TLC

VARIABLES expenses, pc, endpoint, grouping, start_date, end_date,
          db, rows, snap, resp, outcome, detail

vars == <<expenses, pc, endpoint, grouping, start_date, end_date,
          db, rows, snap, resp, outcome, detail>>

reqvars == <<pc, endpoint, grouping, start_date, end_date,
             db, rows, snap, resp, outcome, detail>>

(***************************************************************************)
(* Bounds of the model.                                                    *)
(***************************************************************************)
\* concurrent requests in flight (specification Spec)
NumRequests == 2
\* rows the table holds under Spec
MaxRows == 2
\* rows of the tables the sequential specifications start from
MaxRecords == 3
\* rows of the tables of the rounding specification
MaxRoundRecords == 4
\* calendar years of the week-key specification
FirstYear == 2023
LastYear == 2026
\* largest distance in days between the two rows of that specification
MaxGap == 8

None == <<>>

Requests == 1..NumRequests

(***************************************************************************)
(* Calendar dates.                                                         *)
(***************************************************************************)
MkDate(y, m, d) == <<y, m, d>>

YearOf(dt) == dt[1]
MonthOf(dt) == dt[2]
DayOf(dt) == dt[3]

IsLeap(y) == (y % 4 = 0 /\ y % 100 # 0) \/ y % 400 = 0

DaysInMonth(y, m) ==
    IF m = 2 THEN (IF IsLeap(y) THEN 29 ELSE 28)
    ELSE IF m \in {4, 6, 9, 11} THEN 30 ELSE 31

\* every valid calendar date of the years y1..y2
DatesOfYears(y1, y2) ==
    {MkDate(y, m, d) : y \in y1..y2, m \in 1..12, d \in 1..31} \
        {dt \in {MkDate(y, m, d) : y \in y1..y2, m \in 1..12, d \in 29..31} :
            DayOf(dt) > DaysInMonth(YearOf(dt), MonthOf(dt))}

\* Expense.date >= start_date / Expense.date <= end_date: chronological
\* comparison of two dates
DateLE(a, b) ==
    \/ YearOf(a) < YearOf(b)
    \/ YearOf(a) = YearOf(b) /\ MonthOf(a) < MonthOf(b)
    \/ YearOf(a) = YearOf(b) /\ MonthOf(a) = MonthOf(b) /\ DayOf(a) <= DayOf(b)

DateGE(a, b) == DateLE(b, a)

\* the day after dt, and the k-th day after dt
Tomorrow(dt) ==
    IF DayOf(dt) < DaysInMonth(YearOf(dt), MonthOf(dt))
    THEN MkDate(YearOf(dt), MonthOf(dt), DayOf(dt) + 1)
    ELSE IF MonthOf(dt) < 12 THEN MkDate(YearOf(dt), MonthOf(dt) + 1, 1)
    ELSE MkDate(YearOf(dt) + 1, 1, 1)

RECURSIVE AddDays(_, _)
AddDays(dt, k) == IF k = 0 THEN dt ELSE AddDays(Tomorrow(dt), k - 1)

(***************************************************************************)
(* Strings as sequences of character codes.                                *)
(***************************************************************************)
DigitChar(n) == 48 + n

\* "%04d" and "%02d"
Digits4(n) == <<DigitChar((n \div 1000) % 10), DigitChar((n \div 100) % 10),
                DigitChar((n \div 10) % 10), DigitChar(n % 10)>>
Digits2(n) == <<DigitChar((n \div 10) % 10), DigitChar(n % 10)>>

\* bytewise (memcmp) order of two strings
RECURSIVE StrLess(_, _)
StrLess(s, t) ==
    IF t = <<>> THEN FALSE
    ELSE IF s = <<>> THEN TRUE
    ELSE IF Head(s) # Head(t) THEN Head(s) < Head(t)
    ELSE StrLess(Tail(s), Tail(t))

\* str(date): ISO format YYYY-MM-DD
DateStr(dt) ==
    Digits4(YearOf(dt)) \o <<45>> \o Digits2(MonthOf(dt)) \o <<45>> \o Digits2(DayOf(dt))

(***************************************************************************)
(* SQLite strftime(): the Julian day number of a date, the day of the      *)
(* year and the %W week number (Monday is the first day of the week).      *)
(***************************************************************************)
JulianDay(dt) ==
    LET Y == IF MonthOf(dt) <= 2 THEN YearOf(dt) - 1 ELSE YearOf(dt)
        M == IF MonthOf(dt) <= 2 THEN MonthOf(dt) + 12 ELSE MonthOf(dt)
        A == Y \div 100
        B == 2 - A + (A \div 4)
        X1 == (36525 * (Y + 4716)) \div 100
        X2 == (306001 * (M + 1)) \div 10000
    IN  X1 + X2 + DayOf(dt) + B - 1524

\* WeekdayMon0 counted from Sunday (0 = Sunday .. 6 = Saturday), which turns
\* %W into %U; C5 tells the two apart
WeekdaySun0(dt) == (JulianDay(dt) + 1) % 7

\* 0 = Monday .. 6 = Sunday
WeekdayMon0(dt) == JulianDay(dt) % 7

\* days since January 1st of the same year
DayOfYear0(dt) == JulianDay(dt) - JulianDay(MkDate(YearOf(dt), 1, 1))

\* WeekOfYear with weeks that start on Sunday (%U); C6 tells the two apart
WeekOfYearSunday(dt) ==
    (JulianDay(dt) - JulianDay(MkDate(YearOf(dt), 1, 1)) + 7
        - ((JulianDay(dt) + 1) % 7)) \div 7

\* %W
WeekOfYear(dt) == (DayOfYear0(dt) + 7 - WeekdayMon0(dt)) \div 7

\* strftime('%Y-W%W', Expense.date)
StrftimeYW(dt) == Digits4(YearOf(dt)) \o <<45, 87>> \o Digits2(WeekOfYear(dt))

\* strftime('%Y-%m', Expense.date)
StrftimeYm(dt) == Digits4(YearOf(dt)) \o <<45>> \o Digits2(MonthOf(dt))

(***************************************************************************)
(* The expense table and the SQL aggregate functions.  A row of the table  *)
(* is [amount, category, date]; its id is its key in the function.         *)
(***************************************************************************)
Row(a, c, dt) == [amount |-> a, category |-> c, date |-> dt]

\* every table of at most n rows with ids 1..k over the given values
Tables(n, Amounts, Categories, Dates) ==
    UNION {[1..k -> {Row(a, c, dt) : a \in Amounts, c \in Categories, dt \in Dates}] :
              k \in 0..n}

RECURSIVE SumAmount(_, _)
SumAmount(store, ids) ==
    IF ids = {} THEN 0
    ELSE LET i == CHOOSE x \in ids : TRUE
         IN  store[i].amount + SumAmount(store, ids \ {i})

\* A REAL result of SQLite is the exact ratio <<numerator, denominator>> of
\* thousandths; NULL is None.
SqlSum(store, ids) == IF ids = {} THEN None ELSE <<SumAmount(store, ids), 1>>
SqlCount(store, ids) == Cardinality(ids)
SqlAvg(store, ids) ==
    IF ids = {} THEN None ELSE <<SumAmount(store, ids), Cardinality(ids)>>
SqlMin(store, ids) ==
    IF ids = {} THEN None
    ELSE <<(CHOOSE a \in {store[i].amount : i \in ids} :
               \A i \in ids : a <= store[i].amount), 1>>
SqlMax(store, ids) ==
    IF ids = {} THEN None
    ELSE <<(CHOOSE a \in {store[i].amount : i \in ids} :
               \A i \in ids : a >= store[i].amount), 1>>
SqlMinDate(store, ids) ==
    CHOOSE dt \in {store[i].date : i \in ids} : \A i \in ids : DateLE(dt, store[i].date)
\* SqlMaxDate returning the earliest date (func.min written for func.max);
\* C7 tells the two apart
SqlMaxDateAsMin(store, ids) ==
    CHOOSE dt \in {store[i].date : i \in ids} : \A i \in ids : DateLE(dt, store[i].date)
SqlMaxDate(store, ids) ==
    CHOOSE dt \in {store[i].date : i \in ids} : \A i \in ids : DateGE(dt, store[i].date)

\* FilterStart with the bound exclusive (> for >=); C1 tells the two apart
FilterStartStrict(store, ids, s) ==
    IF s # None THEN {i \in ids : DateGE(store[i].date, s) /\ store[i].date # s} ELSE ids

\* if start_date: query = query.filter(Expense.date >= start_date)
FilterStart(store, ids, s) ==
    IF s # None THEN {i \in ids : DateGE(store[i].date, s)} ELSE ids

\* if end_date: query = query.filter(Expense.date <= end_date)
FilterEnd(store, ids, e) ==
    IF e # None THEN {i \in ids : DateLE(store[i].date, e)} ELSE ids

\* the rows the WHERE clause of a request keeps
Where(store, s, e) == FilterEnd(store, FilterStart(store, DOMAIN store, s), e)

(***************************************************************************)
(* round(x, 2): the nearest multiple of 0.01, ties to the even one; the    *)
(* result is a number of cents.                                            *)
(***************************************************************************)
RoundHalfEven(n, d) ==
    LET q == n \div d
        r == n - q * d
    IN  IF 2 * r < d THEN q
        ELSE IF 2 * r > d THEN q + 1
        ELSE IF q % 2 = 0 THEN q ELSE q + 1

\* Round2 cutting the digits off instead of rounding (towards minus
\* infinity); C4 tells the two apart
Round2Truncate(v) == v[1] \div (10 * v[2])

Round2(v) == RoundHalfEven(v[1], 10 * v[2])

(***************************************************************************)
(* GET /api/stats/by-category                                              *)
(***************************************************************************)
\* CategoryKey with the case folded, as a case-insensitive grouping would
\* do; C2 tells the two apart
CategoryKeyNoCase(row) == IF row.category = "Food" THEN "food" ELSE row.category

\* group_by(Expense.category): the grouping key of a row
CategoryKey(row) == row.category

CategoryGroups(store, ids) ==
    {LET G == {i \in ids : CategoryKey(store[i]) = k}
     IN  [category |-> k, total |-> SqlSum(store, G), count |-> SqlCount(store, G),
          average |-> SqlAvg(store, G)] :
        k \in {CategoryKey(store[i]) : i \in ids}}

\* order_by(func.sum(Expense.amount).desc()): every order of the groups that
\* is descending by total (SQLite leaves the order of equal totals open)
RECURSIVE OrderByTotalDesc(_)
OrderByTotalDesc(S) ==
    IF S = {} THEN {<<>>}
    ELSE UNION {{<<m>> \o t : t \in OrderByTotalDesc(S \ {m})} :
                   m \in {x \in S : \A y \in S : y.total[1] <= x.total[1]}}

QueryByCategory(store, s, e) == OrderByTotalDesc(CategoryGroups(store, Where(store, s, e)))

FormatByCategory(results) ==
    [i \in 1..Len(results) |->
        [category |-> results[i].category,
         total |-> Round2(results[i].total),
         count |-> results[i].count,
         average |-> Round2(results[i].average)]]

(***************************************************************************)
(* GET /api/stats/total                                                    *)
(***************************************************************************)
QueryTotal(store, s, e) ==
    LET ids == Where(store, s, e)
    IN  {[total |-> SqlSum(store, ids), count |-> SqlCount(store, ids),
          average |-> SqlAvg(store, ids), min |-> SqlMin(store, ids),
          max |-> SqlMax(store, ids)]}

\* NoExpenses as a truth test (if not result[0]), which also takes a total
\* of zero for no expenses; C3 tells the two apart
NoExpensesFalsy(result) == result.total = None \/ result.total[1] = 0

\* if result[0] is None
NoExpenses(result) == result.total = None

FormatTotal(result) ==
    IF NoExpenses(result)
    THEN [total |-> 0, count |-> 0, average |-> 0, min |-> 0, max |-> 0]
    ELSE [total |-> Round2(result.total),
          count |-> result.count,
          average |-> Round2(result.average),
          min |-> Round2(result.min),
          max |-> Round2(result.max)]

(***************************************************************************)
(* GET /api/stats/by-date                                                  *)
(***************************************************************************)
DailyGroups(store, ids) ==
    {LET G == {i \in ids : store[i].date = k}
     IN  [date |-> k, total |-> SqlSum(store, G), count |-> SqlCount(store, G)] :
        k \in {store[i].date : i \in ids}}

\* order_by(Expense.date.desc())
RECURSIVE OrderByDateDesc(_)
OrderByDateDesc(S) ==
    IF S = {} THEN <<>>
    ELSE LET m == CHOOSE x \in S : \A y \in S : DateLE(y.date, x.date)
         IN  <<m>> \o OrderByDateDesc(S \ {m})

QueryDaily(store, s, e) == {OrderByDateDesc(DailyGroups(store, Where(store, s, e)))}

FormatDaily(results) ==
    [i \in 1..Len(results) |->
        [date |-> DateStr(results[i].date),
         total |-> Round2(results[i].total),
         count |-> results[i].count]]

\* func.strftime('%Y-W%W', Expense.date): the week key of a row
WeekKey(row) == StrftimeYW(row.date)

WeeklyGroups(store, ids) ==
    {LET G == {i \in ids : WeekKey(store[i]) = k}
     IN  [week |-> k, start_date |-> SqlMinDate(store, G),
          end_date |-> SqlMaxDate(store, G), total |-> SqlSum(store, G),
          count |-> SqlCount(store, G)] :
        k \in {WeekKey(store[i]) : i \in ids}}

\* OrderByWeekDesc without .desc(): ascending; C10 tells the two apart
RECURSIVE OrderByWeekAsc(_)
OrderByWeekAsc(S) ==
    IF S = {} THEN <<>>
    ELSE LET m == CHOOSE x \in S : \A y \in S : ~StrLess(y.week, x.week)
         IN  <<m>> \o OrderByWeekAsc(S \ {m})

\* order_by(func.strftime('%Y-W%W', Expense.date).desc())
RECURSIVE OrderByWeekDesc(_)
OrderByWeekDesc(S) ==
    IF S = {} THEN <<>>
    ELSE LET m == CHOOSE x \in S : \A y \in S : ~StrLess(x.week, y.week)
         IN  <<m>> \o OrderByWeekDesc(S \ {m})

QueryWeekly(store, s, e) == {OrderByWeekDesc(WeeklyGroups(store, Where(store, s, e)))}

FormatWeekly(results) ==
    [i \in 1..Len(results) |->
        [week |-> results[i].week,
         start_date |-> DateStr(results[i].start_date),
         end_date |-> DateStr(results[i].end_date),
         total |-> Round2(results[i].total),
         count |-> results[i].count]]

(***************************************************************************)
(* GET /api/stats/by-month (no date filter)                                *)
(***************************************************************************)
MonthlyGroups(store) ==
    {LET G == {i \in DOMAIN store : StrftimeYm(store[i].date) = k}
     IN  [month |-> k, total |-> SqlSum(store, G), count |-> SqlCount(store, G),
          average |-> SqlAvg(store, G)] :
        k \in {StrftimeYm(store[i].date) : i \in DOMAIN store}}

RECURSIVE OrderByMonthDesc(_)
OrderByMonthDesc(S) ==
    IF S = {} THEN <<>>
    ELSE LET m == CHOOSE x \in S : \A y \in S : ~StrLess(x.month, y.month)
         IN  <<m>> \o OrderByMonthDesc(S \ {m})

QueryByMonth(store) == {OrderByMonthDesc(MonthlyGroups(store))}

FormatByMonth(results) ==
    [i \in 1..Len(results) |->
        [month |-> results[i].month,
         total |-> Round2(results[i].total),
         count |-> results[i].count,
         average |-> Round2(results[i].average)]]

(***************************************************************************)
(* The query and the formatting of a request, by endpoint.                 *)
(***************************************************************************)
\* the result lists .all() / .first() can return on the table `store`
QueryResults(ep, g, store, s, e) ==
    IF ep = "by-category" THEN QueryByCategory(store, s, e)
    ELSE IF ep = "total" THEN QueryTotal(store, s, e)
    ELSE IF ep = "by-month" THEN QueryByMonth(store)
    ELSE IF g = "daily" THEN QueryDaily(store, s, e)
    ELSE QueryWeekly(store, s, e)

FormatResults(ep, g, results) ==
    IF ep = "by-category" THEN FormatByCategory(results)
    ELSE IF ep = "total" THEN FormatTotal(results)
    ELSE IF ep = "by-month" THEN FormatByMonth(results)
    ELSE IF g = "daily" THEN FormatDaily(results)
    ELSE FormatWeekly(results)

(***************************************************************************)
(* Requests.  pc[r] is the position of request r:                          *)
(*   "idle"     no request;                                                *)
(*   "handler"  get_db has yielded the session, the handler's try block    *)
(*              is entered, the query is not yet run;                      *)
(*   "fetched"  .all() / .first() has returned the result list;            *)
(*   "done"     the response (or the error) has left the handler and the   *)
(*              session is closed.                                         *)
(* snap[r] records the table as it was when the query of r ran.            *)
(***************************************************************************)
Endpoints == {"by-category", "total", "by-date", "by-month"}
Groupings == {"daily", "weekly"}

\* the messages of the faults the store can raise
Faults == {"database is locked"}

InitRequests ==
    /\ pc = [r \in Requests |-> "idle"]
    /\ endpoint = [r \in Requests |-> "none"]
    /\ grouping = [r \in Requests |-> "daily"]
    /\ start_date = [r \in Requests |-> None]
    /\ end_date = [r \in Requests |-> None]
    /\ db = [r \in Requests |-> "none"]
    /\ rows = [r \in Requests |-> None]
    /\ snap = [r \in Requests |-> None]
    /\ resp = [r \in Requests |-> None]
    /\ outcome = [r \in Requests |-> "pending"]
    /\ detail = [r \in Requests |-> None]

\* The parameters a request can carry, its date bounds drawn from F:
\* grouping is a parameter of /by-date only, /by-month takes no dates.
Params(F) ==
    {p \in [ep : Endpoints, g : Groupings, s : F \cup {None}, e : F \cup {None}] :
        /\ p.ep # "by-date" => p.g = "daily"
        /\ p.ep = "by-month" => p.s = None /\ p.e = None}

\* A request arrives and get_db yields a session: db = SessionLocal().
Begin(r, F) ==
    /\ pc[r] = "idle"
    /\ \E p \in Params(F) :
        /\ endpoint' = [endpoint EXCEPT ![r] = p.ep]
        /\ grouping' = [grouping EXCEPT ![r] = p.g]
        /\ start_date' = [start_date EXCEPT ![r] = p.s]
        /\ end_date' = [end_date EXCEPT ![r] = p.e]
    /\ db' = [db EXCEPT ![r] = "open"]
    /\ pc' = [pc EXCEPT ![r] = "handler"]
    /\ UNCHANGED <<expenses, rows, snap, resp, outcome, detail>>

\* A request arrives and SessionLocal() raises: the call is the first
\* statement of get_db, before its try and before the handler is entered, so
\* neither the finally of get_db nor the except of the handler runs and the
\* exception leaves the application code as it is.
BeginFault(r, F) ==
    /\ pc[r] = "idle"
    /\ \E p \in Params(F) :
        /\ endpoint' = [endpoint EXCEPT ![r] = p.ep]
        /\ grouping' = [grouping EXCEPT ![r] = p.g]
        /\ start_date' = [start_date EXCEPT ![r] = p.s]
        /\ end_date' = [end_date EXCEPT ![r] = p.e]
    /\ outcome' = [outcome EXCEPT ![r] = "unhandled"]
    /\ pc' = [pc EXCEPT ![r] = "done"]
    /\ UNCHANGED <<expenses, db, rows, snap, resp, detail>>

\* The handler builds its query and runs it: one SELECT statement, which
\* reads the table as it is at that instant.
Query(r) ==
    /\ pc[r] = "handler"
    /\ \E res \in QueryResults(endpoint[r], grouping[r], expenses,
                              start_date[r], end_date[r]) :
        rows' = [rows EXCEPT ![r] = res]
    /\ snap' = [snap EXCEPT ![r] = expenses]
    /\ pc' = [pc EXCEPT ![r] = "fetched"]
    /\ UNCHANGED <<expenses, endpoint, grouping, start_date, end_date,
                   db, resp, outcome, detail>>

\* except Exception as e: raise HTTPException(status_code=500, detail=str(e));
\* the finally of get_db then closes the session.
Raise500(r, f) ==
    /\ outcome' = [outcome EXCEPT ![r] = "http_500"]
    /\ detail' = [detail EXCEPT ![r] = f]
    /\ rows' = [rows EXCEPT ![r] = None]
    /\ snap' = [snap EXCEPT ![r] = None]
    /\ db' = [db EXCEPT ![r] = "closed"]
    /\ pc' = [pc EXCEPT ![r] = "done"]
    /\ UNCHANGED <<expenses, endpoint, grouping, start_date, end_date, resp>>

\* The query raises.
QueryFault(r) ==
    /\ pc[r] = "handler"
    /\ \E f \in Faults : Raise500(r, f)

\* Results run again when the loop iterates (the Query object iterated in
\* place of the list), reading the table as it is by then; C9 tells the
\* two apart
ResultsLive(r) ==
    CHOOSE x \in QueryResults(endpoint[r], grouping[r], expenses,
                              start_date[r], end_date[r]) : TRUE

\* the result list the formatting loop iterates: the list .all() returned
Results(r) == rows[r]

\* The formatting loop builds stats and the handler returns it; the finally
\* of get_db closes the session.
Format(r) ==
    /\ pc[r] = "fetched"
    /\ resp' = [resp EXCEPT ![r] = FormatResults(endpoint[r], grouping[r], Results(r))]
    /\ outcome' = [outcome EXCEPT ![r] = "ok"]
    /\ rows' = [rows EXCEPT ![r] = None]
    /\ db' = [db EXCEPT ![r] = "closed"]
    /\ pc' = [pc EXCEPT ![r] = "done"]
    /\ UNCHANGED <<expenses, endpoint, grouping, start_date, end_date, snap, detail>>

\* The formatting loop raises: stats is dropped with the handler's frame.
FormatFault(r) ==
    /\ pc[r] = "fetched"
    /\ \E f \in Faults : Raise500(r, f)

\* The response has been sent; nothing of the request is kept.
Deliver(r) ==
    /\ pc[r] = "done"
    /\ pc' = [pc EXCEPT ![r] = "idle"]
    /\ endpoint' = [endpoint EXCEPT ![r] = "none"]
    /\ grouping' = [grouping EXCEPT ![r] = "daily"]
    /\ start_date' = [start_date EXCEPT ![r] = None]
    /\ end_date' = [end_date EXCEPT ![r] = None]
    /\ db' = [db EXCEPT ![r] = "none"]
    /\ rows' = [rows EXCEPT ![r] = None]
    /\ snap' = [snap EXCEPT ![r] = None]
    /\ resp' = [resp EXCEPT ![r] = None]
    /\ outcome' = [outcome EXCEPT ![r] = "pending"]
    /\ detail' = [detail EXCEPT ![r] = None]
    /\ UNCHANGED expenses

(***************************************************************************)
(* Writers: the expense CRUD endpoints, which insert, update and delete    *)
(* rows of the table while requests are served.                            *)
(***************************************************************************)
Insert(U) ==
    /\ Cardinality(DOMAIN expenses) < MaxRows
    /\ \E row \in U :
        LET id == CHOOSE i \in 1..MaxRows : i \notin DOMAIN expenses
        IN  expenses' = [i \in DOMAIN expenses \cup {id} |->
                            IF i = id THEN row ELSE expenses[i]]
    /\ UNCHANGED reqvars

Update(U) ==
    /\ \E id \in DOMAIN expenses, row \in U :
        /\ row # expenses[id]
        /\ expenses' = [expenses EXCEPT ![id] = row]
    /\ UNCHANGED reqvars

Delete ==
    /\ \E id \in DOMAIN expenses :
        expenses' = [i \in DOMAIN expenses \ {id} |-> expenses[i]]
    /\ UNCHANGED reqvars

(***************************************************************************)
(* Specification Spec: requests served concurrently with each other and    *)
(* with the writers, any step of a request able to fail.                   *)
(***************************************************************************)
ConcDates == {MkDate(2024, 12, 29), MkDate(2024, 12, 30)}
ConcFilterDates == {}
ConcRows == {Row(2505, "food", dt) : dt \in ConcDates}

Init == expenses = <<>> /\ InitRequests

Next ==
    \/ Insert(ConcRows)
    \/ Update(ConcRows)
    \/ Delete
    \/ \E r \in Requests :
        \/ Begin(r, ConcFilterDates)
        \/ BeginFault(r, ConcFilterDates)
        \/ Query(r)
        \/ QueryFault(r)
        \/ Format(r)
        \/ FormatFault(r)
        \/ Deliver(r)

Spec == Init /\ [][Next]_vars

(***************************************************************************)
(* Sequential specifications: one request at a time over a table that      *)
(* does not change, the table drawn from a bounded set.                    *)
(***************************************************************************)
NextSeq(F) ==
    \/ Begin(1, F)
    \/ Query(1)
    \/ Format(1)
    \/ Deliver(1)

\* dates on both sides of week and year boundaries, one amount, one category
WeekDates == {MkDate(2024, 12, 29), MkDate(2024, 12, 30), MkDate(2025, 1, 1),
              MkDate(2025, 1, 5), MkDate(2025, 1, 6)}
DateFilterDates == {MkDate(2024, 12, 30), MkDate(2025, 1, 1), MkDate(2025, 1, 5)}

InitDate == expenses \in Tables(MaxRecords, {1250}, {"food"}, WeekDates) /\ InitRequests
NextDate == NextSeq(DateFilterDates)
SpecDate == InitDate /\ [][NextDate]_vars

\* categories differing in case only, amounts that cancel, one date
CatDates == {MkDate(2024, 1, 1)}
CatFilterDates == {MkDate(2024, 1, 1), MkDate(2024, 1, 2)}

InitCat ==
    /\ expenses \in Tables(MaxRecords, {-1005, 1005}, {"Food", "food", "transport"},
                           CatDates)
    /\ InitRequests
NextCat == NextSeq(CatFilterDates)
SpecCat == InitCat /\ [][NextCat]_vars

\* amounts with a third fractional digit, four categories, no date filter
InitRound ==
    /\ expenses \in Tables(MaxRoundRecords, {4, 9}, {"food", "fun", "rent", "transport"},
                           CatDates)
    /\ InitRequests
NextRound == NextSeq({})
SpecRound == InitRound /\ [][NextRound]_vars

\* two rows at most MaxGap days apart, the first on any date of
\* FirstYear..LastYear
InitWeek ==
    /\ expenses \in
        {<<Row(1250, "food", d1), Row(1250, "food", AddDays(d1, k))>> :
            d1 \in DatesOfYears(FirstYear, LastYear), k \in 0..MaxGap}
    /\ InitRequests
NextWeek == NextSeq({})
SpecWeek == InitWeek /\ [][NextWeek]_vars

(***************************************************************************)
(* Definitions the properties below are stated with.                       *)
(***************************************************************************)
DoneOk(r) == pc[r] = "done" /\ outcome[r] = "ok"

IsWeekly(r) == endpoint[r] = "by-date" /\ grouping[r] = "weekly"

RECURSIVE CountSum(_)
CountSum(seq) == IF seq = <<>> THEN 0 ELSE Head(seq).count + CountSum(Tail(seq))

RECURSIVE TotalSum(_)
TotalSum(seq) == IF seq = <<>> THEN 0 ELSE Head(seq).total + TotalSum(Tail(seq))

\* the number of records a response accounts for
RespCount(r) == IF endpoint[r] = "total" THEN resp[r].count ELSE CountSum(resp[r])

\* the range of the filter, stated on day numbers
InRange(dt, s, e) ==
    /\ s = None \/ JulianDay(dt) >= JulianDay(s)
    /\ e = None \/ JulianDay(dt) <= JulianDay(e)

\* the ids of the records of the queried table that are in the request's range
Selected(r) == {i \in DOMAIN snap[r] : InRange(snap[r][i].date, start_date[r], end_date[r])}

\* the queried table cut down to the records in range
SelectedTable(r) == [i \in Selected(r) |-> snap[r][i]]

\* the responses the request can give on table t with bounds s, e
Responses(r, t, s, e) ==
    {FormatResults(endpoint[r], grouping[r], x) :
        x \in QueryResults(endpoint[r], grouping[r], t, s, e)}

StrLE(a, b) == ~StrLess(b, a)

Abs(x) == IF x < 0 THEN -x ELSE x

(***************************************************************************)
(* C1: for the category, overall, daily and weekly operations and every    *)
(* combination of present and absent bounds, the records aggregated are    *)
(* exactly those with (start absent or date >= start) and (end absent or   *)
(* date <= end): the response is the response of the unfiltered operation  *)
(* on the table of the records in range and accounts for each of them; an  *)
(* inverted range aggregates nothing and does not fail; filtering the      *)
(* records in range again keeps all of them.                               *)
(***************************************************************************)
C1_InclusiveFilter ==
    \A r \in Requests :
        (pc[r] = "done" /\ endpoint[r] \in {"by-category", "total", "by-date"}) =>
            /\ outcome[r] = "ok"
            /\ resp[r] \in Responses(r, SelectedTable(r), None, None)
            /\ RespCount(r) = Cardinality(Selected(r))
            /\ (/\ start_date[r] # None /\ end_date[r] # None
                /\ JulianDay(start_date[r]) > JulianDay(end_date[r]))
                   => RespCount(r) = 0
            /\ Where(SelectedTable(r), start_date[r], end_date[r]) = Selected(r)

\* a weekly request with both bounds present has kept a record dated on its
\* start bound and one dated on its end bound and has dropped another record
C1_Witness ==
    \E r \in Requests :
        /\ DoneOk(r) /\ IsWeekly(r)
        /\ start_date[r] # None /\ end_date[r] # None /\ start_date[r] # end_date[r]
        /\ \E i, j \in Selected(r) :
            snap[r][i].date = start_date[r] /\ snap[r][j].date = end_date[r]
        /\ Selected(r) # DOMAIN snap[r]

(***************************************************************************)
(* C2: the category breakdown has exactly one entry per distinct category  *)
(* string of the filtered records, compared case-sensitively, each entry   *)
(* counts the records of exactly that category, and the counts add up to   *)
(* the number of filtered records.                                         *)
(***************************************************************************)
C2_CategoryPartition ==
    \A r \in Requests :
        (DoneOk(r) /\ endpoint[r] = "by-category") =>
            LET cats == {snap[r][i].category : i \in Selected(r)}
            IN  /\ Len(resp[r]) = Cardinality(cats)
                /\ {resp[r][k].category : k \in 1..Len(resp[r])} = cats
                /\ \A k \in 1..Len(resp[r]) :
                    resp[r][k].count =
                        Cardinality({i \in Selected(r) :
                                        snap[r][i].category = resp[r][k].category})
                /\ CountSum(resp[r]) = Cardinality(Selected(r))

\* a breakdown with separate entries for "Food" and "food"
C2_Witness ==
    \E r \in Requests :
        /\ DoneOk(r) /\ endpoint[r] = "by-category"
        /\ \E k, l \in 1..Len(resp[r]) :
            resp[r][k].category = "Food" /\ resp[r][l].category = "food"
        /\ CountSum(resp[r]) = 3

(***************************************************************************)
(* C3: when no record is in range the overall summary is exactly           *)
(* {total 0, count 0, average 0, min 0, max 0} and the category, daily     *)
(* and weekly breakdowns are empty, the monthly breakdown of an empty      *)
(* table is empty, and none of them fails; when some record is in range    *)
(* the overall summary's count is the number of records in range, also     *)
(* when their amounts sum to zero.                                         *)
(***************************************************************************)
C3_EmptyAndCount ==
    \A r \in Requests :
        pc[r] = "done" =>
            /\ outcome[r] = "ok"
            /\ (endpoint[r] = "total" /\ Selected(r) = {}) =>
                   resp[r] = [total |-> 0, count |-> 0, average |-> 0,
                              min |-> 0, max |-> 0]
            /\ (endpoint[r] \in {"by-category", "by-date"} /\ Selected(r) = {}) =>
                   resp[r] = <<>>
            /\ (endpoint[r] = "by-month" /\ snap[r] = <<>>) => resp[r] = <<>>
            /\ (endpoint[r] = "total" /\ Selected(r) # {}) =>
                   resp[r].count = Cardinality(Selected(r))

\* an overall summary of two records in range whose amounts sum to zero
C3_Witness ==
    \E r \in Requests :
        /\ DoneOk(r) /\ endpoint[r] = "total"
        /\ Cardinality(Selected(r)) = 2
        /\ SumAmount(snap[r], Selected(r)) = 0
        /\ resp[r].count = 2

(***************************************************************************)
(* C4.  The overall summary of the records a category breakdown was        *)
(* computed from, and the distance in cents between the sum of the         *)
(* breakdown's rounded totals and the summary's rounded total.             *)
(***************************************************************************)
OverallOf(r) ==
    FormatTotal(CHOOSE x \in QueryTotal(snap[r], start_date[r], end_date[r]) : TRUE)

RoundingGap(r) == Abs(TotalSum(resp[r]) - OverallOf(r).total)

\* C4 as claimed: the sum of the rounded totals of the category breakdown
\* differs from the rounded total of the overall summary by at most 0.01,
\* whatever the number of categories.
C4_GapAtMostOneCent ==
    \A r \in Requests :
        (DoneOk(r) /\ endpoint[r] = "by-category") => RoundingGap(r) <= 1

\* C4 as amended: with k categories in the breakdown the two differ by at
\* most 0.005 * (k + 1), half a cent for each rounded total involved.
C4_GapAtMostHalfCentEach ==
    \A r \in Requests :
        (DoneOk(r) /\ endpoint[r] = "by-category") =>
            2 * RoundingGap(r) <= Len(resp[r]) + 1

\* a breakdown of four categories whose rounded totals miss the rounded
\* overall total by 0.02
C4_Witness ==
    \E r \in Requests :
        /\ DoneOk(r) /\ endpoint[r] = "by-category"
        /\ Len(resp[r]) = 4
        /\ RoundingGap(r) = 2

(***************************************************************************)
(* C5.  Week numbers as the claim words them: the number of days of the    *)
(* year, up to and including the date, that fall on the day the week       *)
(* starts with.  The weekday comes from the proleptic Gregorian ordinal     *)
(* of the date (day 1 = 0001-01-01, a Monday).                             *)
(***************************************************************************)
RECURSIVE DaysBeforeMonth(_, _)
DaysBeforeMonth(y, m) ==
    IF m = 1 THEN 0 ELSE DaysBeforeMonth(y, m - 1) + DaysInMonth(y, m - 1)

Ordinal(dt) ==
    LET y == YearOf(dt) - 1
    IN  365 * y + (y \div 4) - (y \div 100) + (y \div 400)
            + DaysBeforeMonth(YearOf(dt), MonthOf(dt)) + DayOf(dt)

\* 0 = Sunday, 1 = Monday, ..., 6 = Saturday
Weekday(dt) == Ordinal(dt) % 7

WeekNumberFrom(dt, firstDay) ==
    LET jan1 == Ordinal(MkDate(YearOf(dt), 1, 1))
    IN  Cardinality({o \in jan1..Ordinal(dt) : o % 7 = firstDay})

\* "{year}-W{nn}"
WeekLabel(dt, firstDay) ==
    Digits4(YearOf(dt)) \o <<45, 87>> \o Digits2(WeekNumberFrom(dt, firstDay))

\* the weekly breakdown is the grouping of the records under the week
\* labels of weeks that start on firstDay
WeeklyBucketsAre(r, firstDay) ==
    LET labels == {WeekLabel(snap[r][i].date, firstDay) : i \in Selected(r)}
    IN  /\ Len(resp[r]) = Cardinality(labels)
        /\ {resp[r][k].week : k \in 1..Len(resp[r])} = labels
        /\ \A k \in 1..Len(resp[r]) :
            resp[r][k].count =
                Cardinality({i \in Selected(r) :
                    WeekLabel(snap[r][i].date, firstDay) = resp[r][k].week})

\* C5 as claimed: the week key is "{year}-W{nn}" with nn the week of the
\* year counted in weeks that start on Sunday (the days before the first
\* Sunday are week 00), and two records share a bucket iff they have the
\* same year and the same such number.
C5_SundayWeeks ==
    \A r \in Requests : (DoneOk(r) /\ IsWeekly(r)) => WeeklyBucketsAre(r, 0)

\* C5 as amended: the same with weeks that start on Monday: the days before
\* the year's first Monday are week 00 and the number increases by one on
\* each Monday.
C5_MondayWeeks ==
    \A r \in Requests : (DoneOk(r) /\ IsWeekly(r)) => WeeklyBucketsAre(r, 1)

\* a weekly breakdown of a Sunday and the Monday after it, in two buckets
C5_Witness ==
    \E r \in Requests :
        /\ DoneOk(r) /\ IsWeekly(r)
        /\ Weekday(snap[r][1].date) = 0
        /\ snap[r][2].date = Tomorrow(snap[r][1].date)
        /\ YearOf(snap[r][2].date) = YearOf(snap[r][1].date)
        /\ Len(resp[r]) = 2

(***************************************************************************)
(* C6: two records dated 2024-12-29 (a Sunday) and 2024-12-30 (a Monday)   *)
(* are placed by the weekly breakdown in two buckets with different week   *)
(* keys, each with count 1.                                                *)
(***************************************************************************)
C6_Scenario(r) ==
    /\ DoneOk(r) /\ IsWeekly(r)
    /\ Cardinality(Selected(r)) = 2
    /\ {snap[r][i].date : i \in Selected(r)} = {MkDate(2024, 12, 29), MkDate(2024, 12, 30)}

\* C6: in the scenario the weekly breakdown has two entries with different
\* week keys, each with count 1.
C6_SundayMondaySplit ==
    \A r \in Requests :
        C6_Scenario(r) =>
            /\ Len(resp[r]) = 2
            /\ resp[r][1].week # resp[r][2].week
            /\ resp[r][1].count = 1 /\ resp[r][2].count = 1

\* the scenario, with 2024-12-29 a Sunday and both records in the table
C6_Witness ==
    \E r \in Requests :
        /\ C6_Scenario(r)
        /\ Weekday(MkDate(2024, 12, 29)) = 0
        /\ {resp[r][k].start_date : k \in 1..Len(resp[r])} =
               {DateStr(MkDate(2024, 12, 29)), DateStr(MkDate(2024, 12, 30))}

(***************************************************************************)
(* C7: the daily and the weekly grouping of the same filtered records      *)
(* both partition them: every record is counted in exactly one daily and   *)
(* exactly one weekly bucket, the counts of either add up to the number    *)
(* of filtered records, and the count of a weekly bucket is the sum of     *)
(* the counts of the daily buckets dated from its start_date to its        *)
(* end_date.                                                               *)
(***************************************************************************)
\* the daily breakdown of the table and bounds the request r was served on
DailyOf(r) ==
    FormatDaily(CHOOSE x \in QueryDaily(snap[r], start_date[r], end_date[r]) : TRUE)

RECURSIVE CountBetween(_, _, _)
CountBetween(daily, lo, hi) ==
    IF daily = <<>> THEN 0
    ELSE (IF StrLE(lo, Head(daily).date) /\ StrLE(Head(daily).date, hi)
          THEN Head(daily).count ELSE 0) + CountBetween(Tail(daily), lo, hi)

\* C7: the daily and the weekly breakdown of the same filtered records each
\* count every record exactly once, and a weekly bucket's count is the sum
\* of the daily counts dated within its start_date..end_date.
C7_DailyWeeklyPartition ==
    \A r \in Requests :
        (DoneOk(r) /\ IsWeekly(r)) =>
            LET daily == DailyOf(r)
                weekly == resp[r]
            IN  /\ CountSum(daily) = Cardinality(Selected(r))
                /\ CountSum(weekly) = Cardinality(Selected(r))
                /\ \A i \in Selected(r) :
                    LET d == DateStr(snap[r][i].date)
                    IN  /\ Cardinality({k \in 1..Len(daily) : daily[k].date = d}) = 1
                        /\ Cardinality({k \in 1..Len(weekly) :
                               StrLE(weekly[k].start_date, d)
                                   /\ StrLE(d, weekly[k].end_date)}) = 1
                /\ \A k \in 1..Len(weekly) :
                    weekly[k].count =
                        CountBetween(daily, weekly[k].start_date, weekly[k].end_date)

\* two weekly buckets, one of them made of two daily buckets
C7_Witness ==
    \E r \in Requests :
        /\ DoneOk(r) /\ IsWeekly(r)
        /\ Len(resp[r]) = 2
        /\ Len(DailyOf(r)) = 3
        /\ \E k \in 1..2 : resp[r][k].count = 2

(***************************************************************************)
(* C10: the entries of the weekly breakdown are strictly descending by     *)
(* week key, no key repeated, and in chronological order: of two           *)
(* consecutive entries the later one ends before the earlier one starts,   *)
(* and no entry starts after it ends, so their date ranges never overlap.  *)
(***************************************************************************)
C10_WeeklyOrder ==
    \A r \in Requests :
        (DoneOk(r) /\ IsWeekly(r)) =>
            /\ \A k \in 1..(Len(resp[r]) - 1) :
                /\ StrLess(resp[r][k + 1].week, resp[r][k].week)
                /\ StrLess(resp[r][k + 1].end_date, resp[r][k].start_date)
            /\ \A k \in 1..Len(resp[r]) :
                StrLE(resp[r][k].start_date, resp[r][k].end_date)

\* three buckets on both sides of the turn of the year: 2025-W00, 2024-W53
\* and 2024-W52
C10_Witness ==
    \E r \in Requests :
        /\ DoneOk(r) /\ IsWeekly(r)
        /\ Len(resp[r]) = 3
        /\ resp[r][1].start_date = DateStr(MkDate(2025, 1, 1))
        /\ resp[r][2].start_date = DateStr(MkDate(2024, 12, 30))
        /\ resp[r][3].start_date = DateStr(MkDate(2024, 12, 29))

(***************************************************************************)
(* C8: every request ends either with the complete result of its request   *)
(* type or with one server error of status 500 that carries the message    *)
(* of its cause; a fault raised while the session is obtained, the query   *)
(* is run or the rows are formatted gives no partial result and does not   *)
(* leave the handler as any other kind of error.                           *)
(***************************************************************************)
C8_ResultOr500 ==
    \A r \in Requests :
        pc[r] = "done" =>
            \/ /\ outcome[r] = "ok"
               /\ resp[r] \in Responses(r, snap[r], start_date[r], end_date[r])
            \/ /\ outcome[r] = "http_500"
               /\ detail[r] \in Faults
               /\ resp[r] = None

(***************************************************************************)
(* C9: with requests served concurrently with each other and with the      *)
(* writers, every successful response is the aggregation of the table as   *)
(* it was at the single instant the request's query ran, and a step of a   *)
(* request changes neither the table nor anything of another request.      *)
(***************************************************************************)
\* a successful response is a response of the table snap[r] of the query
C9_SnapshotResponse ==
    \A r \in Requests :
        DoneOk(r) => resp[r] \in Responses(r, snap[r], start_date[r], end_date[r])

\* a step of request r changes only what belongs to r
C9_RequestStepIsLocal ==
    \A r \in Requests :
        pc'[r] # pc[r] =>
            /\ expenses' = expenses
            /\ \A q \in Requests \ {r} :
                /\ pc'[q] = pc[q] /\ endpoint'[q] = endpoint[q]
                /\ grouping'[q] = grouping[q] /\ start_date'[q] = start_date[q]
                /\ end_date'[q] = end_date[q] /\ db'[q] = db[q]
                /\ rows'[q] = rows[q] /\ snap'[q] = snap[q]
                /\ resp'[q] = resp[q] /\ outcome'[q] = outcome[q]
                /\ detail'[q] = detail[q]

\* C9: every successful response is the aggregation of the table at the
\* instant of the request's query, and every step of a request leaves the
\* table and the other requests' state unchanged.
C9_SnapshotIsolation == []C9_SnapshotResponse /\ [][C9_RequestStepIsLocal]_vars

\* a response that differs from what the table would give now, because a
\* writer changed the table after the query, with another request in flight
C9_Witness ==
    \E r \in Requests :
        /\ DoneOk(r)
        /\ snap[r] # expenses
        /\ resp[r] \notin Responses(r, expenses, start_date[r], end_date[r])
        /\ \E q \in Requests \ {r} : pc[q] = "fetched" /\ snap[q] # snap[r]

====
